---------------------------- MODULE Spec2Model ----------------------------
(***************************************************************************)
(* A model of the crawl-and-extract engine of paruff/scrapper:             *)
(*   - extract_inline_model and generate_property_slug                     *)
(*     (src/vrm_crawl/spiders/vrm.py),                                     *)
(*   - VrmSpider.start_requests / VrmSpider.parse, the per-state           *)
(*     pagination loop (src/vrm_crawl/spiders/vrm.py),                     *)
(*   - MultiSheetExcelPipeline, the per-state sheet sink                   *)
(*     (src/vrm_crawl/pipelines.py),                                       *)
(*   - get_growth_areas and format_growth_areas                            *)
(*     (src/vrm_crawl/growth_areas.py) and the scrape handler of the web   *)
(*     front-end (src/web_app.py).                                         *)
(*                                                                         *)
(* Text is a sequence of tokens.  A token is one character, except for a   *)
(* few tokens that stand for a fixed longer piece of text (listed below).  *)
(* Python values are records [t |-> type tag, v |-> payload].              *)
(***************************************************************************)
EXTENDS Integers, Sequences, FiniteSets, Bags, TLC

VARIABLES
    args,        \* the arguments of the latest call of a library function
    result,      \* the outcome of that call (NoResult before it)
    html,        \* ExtractSpec: the markup handed to extract_inline_model
    extracted,   \* ExtractSpec: the outcome of the call ("pending" before it)
    states,      \* VrmSpider.states
    max_pages,   \* VrmSpider.max_pages
    page_count,  \* VrmSpider.page_count (a dict: its DOMAIN is the set of keys)
    inflight,    \* bag of requests handed to the engine and not yet answered
    phase,       \* lifecycle of the run
    last,        \* what the most recent spider callback did
    workbook,    \* MultiSheetExcelPipeline.workbook (NoWorkbook before open)
    filename,    \* MultiSheetExcelPipeline.filename
    disk,        \* the output directory: report path -> saved workbook
    today,       \* the calendar day datetime.now() reports
    written,     \* history: the items handed to process_item since open_spider
    config,      \* what the spider was constructed from: the states argument
                 \* and the file states.yml
    startup      \* history: the warning of __init__, the exception of start_requests

vars == <<args, result, html, extracted, states, max_pages, page_count, inflight, phase,
          last, workbook, filename, disk, today, written, config, startup>>

---------------------------------------------------------------------------
(* Tokens.                                                                 *)
(*   "M"    the text  window.__INITIAL_STATE__                             *)
(*   "_"    one whitespace character                                       *)
(*   "q"    the double quote                                               *)
(*   "n"    the JSON literal  null                                         *)
(*   "1"    one decimal digit                                              *)
(*   "BIG"  a run of more than 4300 decimal digits (CPython refuses to     *)
(*          convert it: int() raises ValueError, which json.loads lets     *)
(*          through and which is not a JSONDecodeError)                    *)
(*   "properties", "name", ... a lower-case word                           *)
(*   "E'"   the letter E with an acute accent ("e'" in lower case)         *)
(*   every other token is the character it shows, and so are "M", "n" and  *)
(*   "q" in the arguments drawn for generate_property_slug                 *)

Min(S) == CHOOSE m \in S : \A k \in S : m <= k

At(s, p) == IF p \in 1..Len(s) THEN s[p] ELSE "EOF"

\* ---- Python values --------------------------------------------------
PyNone == [t |-> "None", v |-> <<>>]
PyStr(s) == [t |-> "str", v |-> s]
PyInt(d) == [t |-> "int", v |-> d]
PyList(xs) == [t |-> "list", v |-> xs]
PyDict(ps) == [t |-> "dict", v |-> ps]   \* ps: sequence of [k |-> text, x |-> value]

\* bool(value)
Truthy(val) == IF val.t = "None" THEN FALSE ELSE Len(val.v) > 0

RECURSIVE DictIndex(_, _, _)
DictIndex(ps, k, i) ==
    IF i > Len(ps) THEN 0
    ELSE IF ps[i].k = k THEN i ELSE DictIndex(ps, k, i + 1)

\* d[k] = x on a dict's pairs: a repeated key keeps its place and takes the new value
DictSet(ps, k, x) ==
    LET i == DictIndex(ps, k, 1)
    IN  IF i = 0 THEN Append(ps, [k |-> k, x |-> x])
        ELSE [ps EXCEPT ![i] = [k |-> k, x |-> x]]

\* d.get(k, default)
DictGet(ps, k, default) ==
    LET i == DictIndex(ps, k, 1)
    IN  IF i = 0 THEN default ELSE ps[i].x

---------------------------------------------------------------------------
(* json.loads on the matched text: a recursive-descent reading of the JSON *)
(* grammar (objects, arrays, strings without escapes, numbers, null).      *)
(* A result is [err, p, val]: err = "" and p the position after the value, *)
(* or err the exception raised.                                            *)

JsonOk(p, val) == [err |-> "", p |-> p, val |-> val]
JsonErr(e) == [err |-> e, p |-> 0, val |-> PyNone]

RECURSIVE SkipWs(_, _)
SkipWs(s, p) == IF At(s, p) = "_" THEN SkipWs(s, p + 1) ELSE p

IsDigit(c) == c \in {"1", "BIG"}

RECURSIVE DigitsEnd(_, _)
DigitsEnd(s, p) == IF IsDigit(At(s, p)) THEN DigitsEnd(s, p + 1) ELSE p

ParseString(s, p) ==
    LET J == {j \in (p + 1)..Len(s) : s[j] = "q"}
    IN  IF J = {} THEN JsonErr("JSONDecodeError")
        ELSE JsonOk(Min(J) + 1, PyStr(SubSeq(s, p + 1, Min(J) - 1)))

ParseNumber(s, p) ==
    LET e == DigitsEnd(s, p)
        d == SubSeq(s, p, e - 1)
    IN  IF \E i \in 1..Len(d) : d[i] = "BIG" THEN JsonErr("ValueError")
        ELSE JsonOk(e, PyInt(d))

RECURSIVE ParseValue(_, _), ParseMembers(_, _, _), ParseElements(_, _, _)

ParseValue(s, p) ==
    LET c == At(s, p)
    IN  CASE c = "{" ->
                 LET p1 == SkipWs(s, p + 1)
                 IN  IF At(s, p1) = "}" THEN JsonOk(p1 + 1, PyDict(<<>>))
                     ELSE ParseMembers(s, p1, <<>>)
          [] c = "[" ->
                 LET p1 == SkipWs(s, p + 1)
                 IN  IF At(s, p1) = "]" THEN JsonOk(p1 + 1, PyList(<<>>))
                     ELSE ParseElements(s, p1, <<>>)
          [] c = "q" -> ParseString(s, p)
          [] c = "n" -> JsonOk(p + 1, PyNone)
          [] IsDigit(c) -> ParseNumber(s, p)
          [] OTHER -> JsonErr("JSONDecodeError")

ParseMembers(s, p, acc) ==
    IF At(s, p) # "q" THEN JsonErr("JSONDecodeError")
    ELSE
      LET k == ParseString(s, p)
      IN  IF k.err # "" THEN k
          ELSE
            LET p2 == SkipWs(s, k.p)
            IN  IF At(s, p2) # ":" THEN JsonErr("JSONDecodeError")
                ELSE
                  LET x == ParseValue(s, SkipWs(s, p2 + 1))
                  IN  IF x.err # "" THEN x
                      ELSE
                        LET p4 == SkipWs(s, x.p)
                            acc2 == DictSet(acc, k.val.v, x.val)
                        IN  CASE At(s, p4) = "," ->
                                     ParseMembers(s, SkipWs(s, p4 + 1), acc2)
                              [] At(s, p4) = "}" -> JsonOk(p4 + 1, PyDict(acc2))
                              [] OTHER -> JsonErr("JSONDecodeError")

ParseElements(s, p, acc) ==
    LET x == ParseValue(s, p)
    IN  IF x.err # "" THEN x
        ELSE
          LET p4 == SkipWs(s, x.p)
              acc2 == Append(acc, x.val)
          IN  CASE At(s, p4) = "," -> ParseElements(s, SkipWs(s, p4 + 1), acc2)
                [] At(s, p4) = "]" -> JsonOk(p4 + 1, PyList(acc2))
                [] OTHER -> JsonErr("JSONDecodeError")

\* json.loads(text): one value, surrounded by optional whitespace, and nothing else
json_loads(s) ==
    LET r == ParseValue(s, SkipWs(s, 1))
    IN  IF r.err # "" THEN r
        ELSE IF SkipWs(s, r.p) <= Len(s) THEN JsonErr("JSONDecodeError")
        ELSE r

---------------------------------------------------------------------------
(* re.search(r"window\.__INITIAL_STATE__\s*=\s*({.*?});", html, re.DOTALL) *)

NoMatch == [matched |-> FALSE, group |-> <<>>]

\* the pattern anchored at position i: the marker, "=", "{", and then the
\* shortest text that ends in "}" directly followed by ";"
MatchAt(s, i) ==
    IF At(s, i) # "M" THEN NoMatch
    ELSE
      LET p1 == SkipWs(s, i + 1)
      IN  IF At(s, p1) # "=" THEN NoMatch
          ELSE
            LET p2 == SkipWs(s, p1 + 1)
            IN  IF At(s, p2) # "{" THEN NoMatch
                ELSE
                  LET J == {j \in (p2 + 1)..(Len(s) - 1) :
                                s[j] = "}" /\ s[j + 1] = ";"}
                  IN  IF J = {} THEN NoMatch
                      ELSE [matched |-> TRUE, group |-> SubSeq(s, p2, Min(J))]

\* search: the leftmost position at which the pattern matches
re_search(s) ==
    LET I == {i \in 1..Len(s) : MatchAt(s, i).matched}
    IN  IF I = {} THEN NoMatch ELSE MatchAt(s, Min(I))

\* The outcome of a call: the value returned, or the exception that leaves it.
Returned(val) == [raised |-> "", val |-> val]
Raised(e) == [raised |-> e, val |-> PyNone]

extract_inline_model(s) ==
    LET match == re_search(s)
    IN  IF match.matched
        THEN LET r == json_loads(match.group)
             IN  CASE r.err = "" -> Returned(r.val)
                   [] r.err = "JSONDecodeError" -> Returned(PyNone)
                   [] OTHER -> Raised(r.err)
        ELSE Returned(PyNone)

---------------------------------------------------------------------------
(* generate_property_slug                                                  *)

UpperChars == <<"A", "B", "C", "T", "V", "X", "F", "L", "M", "N", "O", "P", "S", "E'">>
LowerChars == <<"a", "b", "c", "t", "v", "x", "f", "l", "m", "n", "o", "p", "s", "e'">>

\* str.lower() and str.upper() on one character
LowerChar(c) ==
    IF \E i \in 1..Len(UpperChars) : UpperChars[i] = c
    THEN LowerChars[CHOOSE i \in 1..Len(UpperChars) : UpperChars[i] = c]
    ELSE c

UpperChar(c) ==
    IF \E i \in 1..Len(LowerChars) : LowerChars[i] = c
    THEN UpperChars[CHOOSE i \in 1..Len(LowerChars) : LowerChars[i] = c]
    ELSE c

Lower(s) == [i \in 1..Len(s) |-> LowerChar(s[i])]
Upper(s) == [i \in 1..Len(s) |-> UpperChar(s[i])]

\* the character class [a-z0-9]: the lower-case letters but the accented
\* one, the digits, and the tokens that stand for lower-case words
InAZ09(c) ==
    c \in ({LowerChars[i] : i \in 1..Len(LowerChars)} \ {"e'"})
          \cup {"e", "i", "u", "y"}
          \cup {"1", "BIG", "properties", "name", "city", "url"}

\* re.sub(r"[^a-z0-9]+", "-", s): every maximal run outside [a-z0-9] becomes one "-"
RECURSIVE SubRuns(_, _)
SubRuns(s, i) ==
    IF i > Len(s) THEN <<>>
    ELSE IF InAZ09(s[i]) THEN <<s[i]>> \o SubRuns(s, i + 1)
    ELSE IF i > 1 /\ ~InAZ09(s[i - 1]) THEN SubRuns(s, i + 1)
    ELSE <<"-">> \o SubRuns(s, i + 1)

\* str.strip("-")
RECURSIVE StripLeft(_)
StripLeft(s) == IF s # <<>> /\ Head(s) = "-" THEN StripLeft(Tail(s)) ELSE s

RECURSIVE StripRight(_)
StripRight(s) ==
    IF s # <<>> /\ s[Len(s)] = "-" THEN StripRight(SubSeq(s, 1, Len(s) - 1)) ELSE s

Strip(s) == StripRight(StripLeft(s))

\* a cleaning that leaves the hyphens at the ends
CleanedUntrimmed(part) == SubRuns(Lower(part), 1)

Cleaned(part) == Strip(SubRuns(Lower(part), 1))

\* a join that drops the last part
RECURSIVE JoinButLast(_)
JoinButLast(parts) ==
    IF Len(parts) <= 1 THEN <<>>
    ELSE IF Len(parts) = 2 THEN parts[1]
    ELSE parts[1] \o <<"-">> \o JoinButLast(Tail(parts))

\* "-".join(parts)
RECURSIVE Join(_)
Join(parts) ==
    IF parts = <<>> THEN <<>>
    ELSE IF Len(parts) = 1 THEN parts[1]
    ELSE parts[1] \o <<"-">> \o Join(Tail(parts))

generate_property_slug(name, city, state) ==
    LET parts == <<name, city, state>>
        kept == SelectSeq([i \in 1..3 |-> Cleaned(parts[i])], LAMBDA c : c # <<>>)
    IN  Join(kept)

---------------------------------------------------------------------------
(* VrmSpider.__init__ and _load_states_from_yaml.  The states argument is  *)
(* None or a text; states.yml is a file that cannot be read or parsed, or  *)
(* the value yaml.safe_load returns for it.                                *)

\* str.strip() on a text whose whitespace is "_"
RECURSIVE StripWsLeft(_)
StripWsLeft(s) == IF s # <<>> /\ Head(s) = "_" THEN StripWsLeft(Tail(s)) ELSE s

RECURSIVE StripWsRight(_)
StripWsRight(s) ==
    IF s # <<>> /\ s[Len(s)] = "_" THEN StripWsRight(SubSeq(s, 1, Len(s) - 1)) ELSE s

StripWs(s) == StripWsRight(StripWsLeft(s))

\* str.split(",")
RECURSIVE SplitComma(_)
SplitComma(s) ==
    LET I == {i \in 1..Len(s) : s[i] = ","}
    IN  IF I = {} THEN <<s>>
        ELSE <<SubSeq(s, 1, Min(I) - 1)>> \o SplitComma(SubSeq(s, Min(I) + 1, Len(s)))

\* [s.strip().upper() for s in states.split(",")]
StatesFromArg(text) ==
    PyList([i \in 1..Len(SplitComma(text)) |-> PyStr(Upper(StripWs(SplitComma(text)[i])))])

UnreadableYaml == [readable |-> FALSE, data |-> PyNone]
YamlFile(data) == [readable |-> TRUE, data |-> data]

\* ["VA"]
DefaultStates == PyList(<<PyStr(<<"V", "A">>)>>)

\* _load_states_from_yaml: data.get("states", ["VA"]); any exception (open,
\* the YAML parser, .get on a value that is no mapping) gives the warning
\* and ["VA"]
load_states_from_yaml(yml) ==
    IF ~yml.readable \/ yml.data.t # "dict"
    THEN [states |-> DefaultStates, warned |-> TRUE]
    ELSE [states |-> DictGet(yml.data.v, <<"states">>, DefaultStates), warned |-> FALSE]

\* __init__: self.states and whether the warning was logged
VrmSpider_init(arg, yml) ==
    IF Truthy(arg)
    THEN [states |-> StatesFromArg(arg.v), warned |-> FALSE]
    ELSE load_states_from_yaml(yml)

\* the state codes of self.states, when it is a list of texts
Codes(st) == [i \in 1..Len(st.v) |-> st.v[i].v]

---------------------------------------------------------------------------
(* VrmSpider: requests, the item built for one property, the callbacks.    *)

DefaultMaxPages == 250

Key(w) == <<w>>

\* scrapy.Request(url=..., callback=self.parse, meta={"state": state}, dont_filter=...)
Request(url, state, dont_filter) ==
    [url |-> url, state |-> state, dont_filter |-> dont_filter]

NoRequest == Request(<<>>, <<>>, FALSE)

\* f"https://www.vacationrentalmanagers.com/{state.lower()}" (the host is left out)
ListingUrl(state) == <<"/">> \o Lower(state)

\* an element of a callback's output: an item or a request
ItemEvent(item) == [kind |-> "item", item |-> item, request |-> NoRequest]
RequestEvent(req) == [kind |-> "request", item |-> <<>>, request |-> req]

\* the dict literal of parse: the page's state tag, then seven fields of the
\* property, each "" when the property does not carry it
BaseItem(state, prop) ==
    << [k |-> Key("state"), x |-> PyStr(state)],
       [k |-> Key("name"), x |-> DictGet(prop.v, Key("name"), PyStr(<<>>))],
       [k |-> Key("city"), x |-> DictGet(prop.v, Key("city"), PyStr(<<>>))],
       [k |-> Key("address"), x |-> DictGet(prop.v, Key("address"), PyStr(<<>>))],
       [k |-> Key("price"), x |-> DictGet(prop.v, Key("price"), PyStr(<<>>))],
       [k |-> Key("bedrooms"), x |-> DictGet(prop.v, Key("bedrooms"), PyStr(<<>>))],
       [k |-> Key("bathrooms"), x |-> DictGet(prop.v, Key("bathrooms"), PyStr(<<>>))],
       [k |-> Key("url"), x |-> DictGet(prop.v, Key("url"), PyStr(<<>>))] >>

\* for prop in properties: what the loop iterates over, or the TypeError of
\* iterating a value that is not iterable
Iterate(val) ==
    CASE val.t = "list" -> [raised |-> "", elems |-> val.v]
      [] val.t = "dict" ->
             [raised |-> "", elems |-> [i \in 1..Len(val.v) |-> PyStr(val.v[i].k)]]
      [] val.t = "str" ->
             [raised |-> "", elems |-> [i \in 1..Len(val.v) |-> PyStr(<<val.v[i]>>)]]
      [] OTHER -> [raised |-> "TypeError", elems |-> <<>>]

\* a variant of WithSlug that asks for a name only
WithSlugForName(item, state) ==
    LET name == DictGet(item, Key("name"), PyNone)
        city == DictGet(item, Key("city"), PyNone)
    IN  IF Truthy(name)
        THEN IF name.t # "str" \/ city.t # "str" THEN Raised("AttributeError")
             ELSE Returned(DictSet(item, Key("slug"),
                               PyStr(generate_property_slug(name.v, city.v, state))))
        ELSE Returned(item)

\* lines 164-166 of parse: the item with its slug when it has a name and a
\* city (.lower() raises AttributeError on a name or city that is no str)
WithSlug(item, state) ==
    LET name == DictGet(item, Key("name"), PyNone)
        city == DictGet(item, Key("city"), PyNone)
    IN  IF Truthy(name) /\ Truthy(city)
        THEN IF name.t # "str" \/ city.t # "str" THEN Raised("AttributeError")
             ELSE Returned(DictSet(item, Key("slug"),
                               PyStr(generate_property_slug(name.v, city.v, state))))
        ELSE Returned(item)

\* the body of the loop over properties, from element i on: the items yielded
\* and the exception, if any, that ends the generator (prop.get on a value
\* that is no dict, or the one of WithSlug)
RECURSIVE YieldItems(_, _, _, _)
YieldItems(state, elems, i, acc) ==
    IF i > Len(elems) THEN [raised |-> "", items |-> acc]
    ELSE
      LET prop == elems[i]
      IN  IF prop.t # "dict" THEN [raised |-> "AttributeError", items |-> acc]
          ELSE
            LET item == WithSlug(BaseItem(state, prop), state)
            IN  IF item.raised # "" THEN [raised |-> item.raised, items |-> acc]
                ELSE YieldItems(state, elems, i + 1, Append(acc, item.val))

\* a variant of PageItems in which a page without a usable model ends the callback
PageItemsNoModelRaises(state, text) ==
    IF extract_inline_model(text) = Returned(PyNone)
    THEN [raised |-> "AttributeError", items |-> <<>>]
    ELSE [raised |-> "", items |-> <<>>]

\* lines 144-168 of parse: the items of one page
PageItems(state, text) ==
    LET inline_data == extract_inline_model(text)
    IN  IF inline_data.raised # ""
        THEN [raised |-> inline_data.raised, items |-> <<>>]
        ELSE IF ~Truthy(inline_data.val) THEN [raised |-> "", items |-> <<>>]
        ELSE
          LET properties == DictGet(inline_data.val.v, Key("properties"), PyList(<<>>))
              it == Iterate(properties)
          IN  IF it.raised # "" THEN [raised |-> it.raised, items |-> <<>>]
              ELSE YieldItems(state, it.elems, 1, <<>>)

\* self.page_count.get(state, 0)
CountGet(pc, state) == IF state \in DOMAIN pc THEN pc[state] ELSE 0

\* self.page_count[state] = n
CountSet(pc, state, n) ==
    [k \in (DOMAIN pc) \cup {state} |-> IF k = state THEN n ELSE pc[k]]

\* a variant of Increment that counts the page for every state
IncrementAll(pc, state) ==
    [k \in (DOMAIN pc) \cup {state} |-> CountGet(pc, k) + 1]

\* a variant of Increment that stores the count it read
IncrementLost(pc, state) == CountSet(pc, state, CountGet(pc, state))

\* self.page_count[state] = self.page_count.get(state, 0) + 1
Increment(pc, state) == CountSet(pc, state, CountGet(pc, state) + 1)

\* lines 170-178 of parse: the pagination decision, taken after the items
\* (not reached when the generator raised)
ReachedCap(count, maxp) == count >= maxp

Follows(response, count, maxp) ==
    IF ReachedCap(count, maxp) THEN <<>>
    ELSE IF Truthy(response.next_page)
         THEN <<RequestEvent(Request(response.next_page.v, response.state, FALSE))>>
         ELSE <<>>

ItemEvents(items) == [i \in 1..Len(items) |-> ItemEvent(items[i])]

\* a variant of Output that yields the follow request before the items
OutputFollowFirst(items, follows) == follows \o ItemEvents(items)

\* the output of one callback, in the order the generator yields it
Output(items, follows) == ItemEvents(items) \o follows

\* a variant of ParseResult that checks the cap before the items are yielded
ParseResultCapFirst(response, counted, maxp, got) ==
    [page_count |-> counted,
     out |-> IF ReachedCap(counted[response.state], maxp) THEN <<>>
             ELSE Output(got.items,
                         IF got.raised # "" THEN <<>>
                         ELSE Follows(response, counted[response.state], maxp)),
     warned |-> got.raised = "" /\ ReachedCap(counted[response.state], maxp),
     raised |-> got.raised]

\* lines 139-140 and 170-178 of parse around the items `got` of lines 144-168:
\* the new page_count, the output in the order the generator yields it,
\* whether the cap warning was logged, and the exception that ended the
\* callback, if any
ParseResult(response, counted, maxp, got) ==
    [page_count |-> counted,
     out |-> Output(got.items,
                    IF got.raised # "" THEN <<>>
                    ELSE Follows(response, counted[response.state], maxp)),
     warned |-> got.raised = "" /\ ReachedCap(counted[response.state], maxp),
     raised |-> got.raised]

\* VrmSpider.parse
parse(response, pc, maxp) ==
    ParseResult(response, Increment(pc, response.state), maxp,
                PageItems(response.state, response.text))

---------------------------------------------------------------------------
(* MultiSheetExcelPipeline.  A workbook is a sequence of sheets, a sheet a *)
(* title and a sequence of rows, a row a sequence of cell values.          *)

NoWorkbook == [none |-> TRUE, sheets |-> <<>>]
Workbook(sheets) == [none |-> FALSE, sheets |-> sheets]
Sheet(title, rows) == [title |-> title, rows |-> rows]

NoFile == [exists |-> FALSE, sheets |-> <<>>]
SavedFile(sheets) == [exists |-> TRUE, sheets |-> sheets]

\* output/vrm_listings_<date>.xlsx: the path is the date stamp
ReportPath(day) == day

\* a variant of SheetIndex that never finds the sheet
SheetIndexNone(sheets, title, i) == 0

\* state in self.workbook.sheetnames, and self.workbook[state]: the place of
\* the sheet with this title, 0 when there is none
RECURSIVE SheetIndex(_, _, _)
SheetIndex(sheets, title, i) ==
    IF i > Len(sheets) THEN 0
    ELSE IF sheets[i].title = title THEN i ELSE SheetIndex(sheets, title, i + 1)

\* list(item.keys()) as a row of cells
KeysRow(item) == [i \in 1..Len(item) |-> PyStr(item[i].k)]

\* [item.get(key, "") for key in item.keys()]
ValuesRow(item) == [i \in 1..Len(item) |-> DictGet(item, item[i].k, PyStr(<<>>))]

\* a variant of process_item that writes the item's keys over the header of
\* an existing sheet
process_item_reheader(sheets, item) ==
    LET state == DictGet(item, Key("state"), PyStr(<<"Unknown">>)).v
        at == SheetIndex(sheets, state, 1)
    IN  IF at = 0
        THEN Append(sheets, Sheet(state, <<KeysRow(item), ValuesRow(item)>>))
        ELSE [sheets EXCEPT ![at].rows =
                 <<KeysRow(item)>> \o Tail(@) \o <<ValuesRow(item)>>]

\* a variant of process_item that adds the row of a state that has a sheet
\* to the sheet made last
process_item_lastsheet(sheets, item) ==
    LET state == DictGet(item, Key("state"), PyStr(<<"Unknown">>)).v
        at == SheetIndex(sheets, state, 1)
    IN  IF at = 0
        THEN Append(sheets, Sheet(state, <<KeysRow(item), ValuesRow(item)>>))
        ELSE [sheets EXCEPT ![Len(sheets)].rows = Append(@, ValuesRow(item))]

\* a variant of process_item that leaves out a row the sheet already holds
process_item_unique(sheets, item) ==
    LET state == DictGet(item, Key("state"), PyStr(<<"Unknown">>)).v
        at == SheetIndex(sheets, state, 1)
    IN  IF at = 0
        THEN Append(sheets, Sheet(state, <<KeysRow(item), ValuesRow(item)>>))
        ELSE IF \E n \in 2..Len(sheets[at].rows) : sheets[at].rows[n] = ValuesRow(item)
             THEN sheets
             ELSE [sheets EXCEPT ![at].rows = Append(@, ValuesRow(item))]

\* process_item: the sheets after writing one item
process_item(sheets, item) ==
    LET state == DictGet(item, Key("state"), PyStr(<<"Unknown">>)).v
        at == SheetIndex(sheets, state, 1)
    IN  IF at = 0
        THEN Append(sheets, Sheet(state, <<KeysRow(item), ValuesRow(item)>>))
        ELSE [sheets EXCEPT ![at].rows = Append(@, ValuesRow(item))]

RECURSIVE ProcessItems(_, _, _)
ProcessItems(sheets, items, i) ==
    IF i > Len(items) THEN sheets
    ELSE ProcessItems(process_item(sheets, items[i]), items, i + 1)

\* a variant of open_spider that makes a sheet for each requested state
open_spider_declared ==
    /\ filename' = ReportPath(today)
    /\ workbook' = Workbook([i \in 1..Len(states.v) |-> Sheet(Codes(states)[i], << <<>> >>)])
    /\ written' = <<>>

\* a variant of open_spider that always starts an empty workbook
open_spider_fresh ==
    /\ filename' = ReportPath(today)
    /\ workbook' = Workbook(<<>>)
    /\ written' = <<>>

\* a variant of open_spider whose path carries no date
open_spider_undated ==
    /\ filename' = ReportPath(1)
    /\ workbook' = IF disk[ReportPath(1)].exists
                   THEN Workbook(disk[ReportPath(1)].sheets)
                   ELSE Workbook(<<>>)
    /\ written' = <<>>

\* open_spider: the path of today's report, and the workbook loaded from it
\* or started empty (the default sheet removed)
open_spider ==
    /\ filename' = ReportPath(today)
    /\ workbook' = IF disk[ReportPath(today)].exists
                   THEN Workbook(disk[ReportPath(today)].sheets)
                   ELSE Workbook(<<>>)
    /\ written' = <<>>

\* a variant of close_spider that saves to the path of the day of the close
close_spider_today ==
    /\ disk' = IF workbook.none THEN disk
               ELSE [disk EXCEPT ![ReportPath(today)] = SavedFile(workbook.sheets)]

\* close_spider: save the workbook to the path resolved at open
close_spider ==
    /\ disk' = IF workbook.none THEN disk
               ELSE [disk EXCEPT ![filename] = SavedFile(workbook.sheets)]

---------------------------------------------------------------------------
(* The crawl: the engine opens the pipeline, consumes start_requests,      *)
(* answers each request in flight with a response (or drops it), hands the *)
(* callback's output on in order, and closes the pipeline when idle.       *)

MaxCap == 2
MaxDay == 2
MaxRows == 3

Days == 1..MaxDay

VA == <<"V", "A">>
TX == <<"T", "X">>
StateCodes == {VA, TX}

\* the lists of codes given with -a states=...: one code, or two codes
\* that may be the same one
StateLists ==
    {<<a>> : a \in StateCodes} \cup {<<a, b>> : a, b \in StateCodes}

\* the caps VRM_MAX_PAGES is set to
CapSettings == 1..MaxCap

\* the VRM_MAX_PAGES entry of the settings: none, a number (settings.py),
\* or the text given with -s VRM_MAX_PAGES=...
\* (a number of the settings is held as the number itself)
NoCapEntry == PyNone
CapEntries == {PyInt(c) : c \in CapSettings}
CapText == PyStr(<<"_", "1">>)

Q(w) == <<"q", w, "q">>
Assign == <<"M", "_", "=", "_">>
PropA == <<"{">> \o Q("name") \o <<":">> \o Q("A") \o <<",">>
             \o Q("city") \o <<":">> \o Q("C") \o <<"}">>
PropB == <<"{">> \o Q("name") \o <<":">> \o Q("B") \o <<"}">>
WithProperties(value) ==
    Assign \o <<"{">> \o Q("properties") \o <<":">> \o value \o <<"}", ";">>

NoMarkerBody == <<"x", ";">>
MalformedBody == Assign \o <<"{", "x", "}", ";">>
EmptyModelBody == Assign \o <<"{", "}", ";">>
OneBody == WithProperties(<<"[">> \o PropA \o <<"]">>)
TwoBody == WithProperties(<<"[">> \o PropB \o <<",">> \o PropA \o <<"]">>)
NullPropertiesBody == WithProperties(<<"n">>)
BadElementBody == WithProperties(<<"[">> \o PropB \o <<",", "n", "]">>)
BigNumberBody == WithProperties(<<"BIG">>)

\* the markup the site answers with during a crawl
Bodies == {NoMarkerBody, MalformedBody, TwoBody, NullPropertiesBody, BigNumberBody}

\* response.css("a.next-page::attr(href)").get(): None without such a link,
\* else its href (which may be empty)
NextPages == {PyNone, PyStr(<<>>), PyStr(<<"/", "p">>)}

\* one more than the items any crawl writes: for each state the pages
\* fetched while its counter is at most MaxCap, each page with at most the
\* two properties of TwoBody
MaxWritten == Cardinality(StateCodes) * (MaxCap + 1) * Len(<<PropB, PropA>>) + 1

Response(req, text, next_page) ==
    [url |-> req.url, state |-> req.state, text |-> text, next_page |-> next_page]

NoCallback ==
    [called |-> FALSE, response |-> Response(NoRequest, <<>>, PyNone), before |-> 0,
     count |-> 0, out |-> <<>>, warned |-> FALSE, raised |-> ""]

NotExtracted == [called |-> FALSE, raised |-> "", val |-> PyNone]

NoResult == [called |-> FALSE, raised |-> "", val |-> <<>>]

\* "VA,TX": the codes joined by commas
RECURSIVE CommaList(_)
CommaList(list) ==
    IF Len(list) = 1 THEN list[1]
    ELSE list[1] \o <<",">> \o CommaList(Tail(list))

StatesEntry(value) == PyDict(<<[k |-> <<"states">>, x |-> value]>>)

\* states.yml: absent or no YAML, empty, a mapping without "states", with
\* "states:" left empty, or with a list of codes as written by hand
YamlFiles ==
    {UnreadableYaml,
     YamlFile(PyNone),
     YamlFile(PyDict(<<>>)),
     YamlFile(StatesEntry(PyNone)),
     YamlFile(StatesEntry(PyList(<<PyStr(VA)>>))),
     YamlFile(StatesEntry(PyList(<<PyStr(<<"v", "a">>)>>)))}

\* how the spider is constructed: with -a states=... or without, and the
\* settings it runs under
Configs ==
    {[arg |-> PyStr(CommaList(list)), yml |-> UnreadableYaml, cap |-> c] :
         list \in StateLists, c \in CapEntries}
    \cup {[arg |-> PyStr(<<"_", "t", "x", "_">>),
           yml |-> YamlFile(StatesEntry(PyList(<<PyStr(VA)>>))), cap |-> CapText]}
    \cup {[arg |-> PyNone, yml |-> y, cap |-> NoCapEntry] : y \in YamlFiles}

NoConfig == [arg |-> PyNone, yml |-> UnreadableYaml, cap |-> NoCapEntry]
NoStartup == [warned |-> FALSE, raised |-> ""]

Init ==
    /\ args = <<>>
    /\ result = NoResult
    /\ html = <<>>
    /\ extracted = NotExtracted
    /\ config \in Configs
    /\ states = VrmSpider_init(config.arg, config.yml).states
    /\ startup = [warned |-> VrmSpider_init(config.arg, config.yml).warned, raised |-> ""]
    /\ max_pages = DefaultMaxPages
    /\ page_count = <<>>
    /\ inflight = EmptyBag
    /\ phase = "init"
    /\ last = NoCallback
    /\ workbook = NoWorkbook
    /\ filename = 0
    /\ disk = [d \in Days |-> NoFile]
    /\ today = 1
    /\ written = <<>>

OpenSpider ==
    /\ phase = "init"
    /\ open_spider
    /\ phase' = "opened"
    /\ UNCHANGED <<args, result, config, startup, html, extracted, states, max_pages,
                   page_count, inflight,
                   last, disk, today>>

RECURSIVE ZeroCounts(_, _, _)
ZeroCounts(pc, list, i) ==
    IF i > Len(list) THEN pc ELSE ZeroCounts(CountSet(pc, list[i], 0), list, i + 1)

RECURSIVE FirstRequests(_, _)
FirstRequests(list, i) ==
    IF i > Len(list) THEN EmptyBag
    ELSE SetToBag({Request(ListingUrl(list[i]), list[i], TRUE)})
             (+) FirstRequests(list, i + 1)

\* int(text): the decimal number written in the text, blanks around it
\* ignored
RECURSIVE DecimalValue(_, _)
DecimalValue(s, acc) ==
    IF s = <<>> THEN acc
    ELSE DecimalValue(Tail(s), 10 * acc + (IF Head(s) = "1" THEN 1 ELSE 0))

\* a getint that ignores the entry
getint_default(entry, default) == Returned(default)

\* settings.getint(name, default): int() of the entry, or of the default when
\* there is no entry; ValueError for text that is no number
getint(entry, default) ==
    IF entry.t = "None" THEN Returned(default)
    ELSE IF entry.t = "int" THEN Returned(entry.v)
    ELSE IF StripWs(entry.v) # <<>> /\ \A i \in 1..Len(StripWs(entry.v)) :
                                           StripWs(entry.v)[i] = "1"
         THEN Returned(DecimalValue(StripWs(entry.v), 0))
         ELSE Raised("ValueError")

\* start_requests: read the cap from the settings, then for each state of
\* self.states reset its counter and yield its first request
\* (iterating self.states raises TypeError when it is no list)
start_requests(entry) ==
    IF getint(entry, DefaultMaxPages).raised # ""
    THEN /\ max_pages' = max_pages
         /\ page_count' = page_count
         /\ inflight' = inflight
         /\ startup' = [startup EXCEPT !.raised = getint(entry, DefaultMaxPages).raised]
    ELSE /\ max_pages' = getint(entry, DefaultMaxPages).val
         /\ IF Iterate(states).raised = ""
            THEN /\ page_count' = ZeroCounts(page_count, Codes(states), 1)
                 /\ inflight' = inflight (+) FirstRequests(Codes(states), 1)
                 /\ startup' = startup
            ELSE /\ page_count' = page_count
                 /\ inflight' = inflight
                 /\ startup' = [startup EXCEPT !.raised = Iterate(states).raised]

StartRequests ==
    /\ phase = "opened"
    /\ start_requests(config.cap)
    /\ phase' = "crawling"
    /\ UNCHANGED <<args, result, config, html, extracted, states, last, workbook, filename, disk,
                   today, written>>

RECURSIVE OutItems(_, _)
OutItems(out, i) ==
    IF i > Len(out) THEN <<>>
    ELSE IF out[i].kind = "item" THEN <<out[i].item>> \o OutItems(out, i + 1)
    ELSE OutItems(out, i + 1)

RECURSIVE OutRequests(_, _)
OutRequests(out, i) ==
    IF i > Len(out) THEN EmptyBag
    ELSE IF out[i].kind = "request"
         THEN SetToBag({out[i].request}) (+) OutRequests(out, i + 1)
         ELSE OutRequests(out, i + 1)

\* a response arrives for a request in flight: the callback runs (result r),
\* its items go through the pipeline and its requests to the scheduler
PageFetched(req, response, r, items) ==
    /\ page_count' = r.page_count
    /\ workbook' = Workbook(ProcessItems(workbook.sheets, items, 1))
    /\ written' = written \o items
    /\ inflight' = (inflight (-) SetToBag({req})) (+) OutRequests(r.out, 1)
    /\ last' = [called |-> TRUE, response |-> response,
                before |-> CountGet(page_count, req.state),
                count |-> r.page_count[req.state], out |-> r.out,
                warned |-> r.warned, raised |-> r.raised]

Deliver(req, response, r) == PageFetched(req, response, r, OutItems(r.out, 1))

Callback(req, response) == Deliver(req, response, parse(response, page_count, max_pages))

OnPageFetched ==
    /\ phase = "crawling"
    /\ Len(written) < MaxWritten
    /\ \E req \in BagToSet(inflight), text \in Bodies, next_page \in NextPages :
           /\ CountGet(page_count, req.state) <= MaxCap
           /\ Callback(req, Response(req, text, next_page))
    /\ UNCHANGED <<args, result, config, startup, html, extracted, states, max_pages,
                   phase, filename, disk, today>>

\* a variant of FetchFailed that counts the page
FetchFailedCounted ==
    /\ phase = "crawling"
    /\ \E req \in BagToSet(inflight) :
           /\ inflight' = inflight (-) SetToBag({req})
           /\ page_count' = Increment(page_count, req.state)
    /\ UNCHANGED <<args, result, config, startup, html, extracted, states, max_pages,
                   phase, last,
                   workbook, filename, disk, today, written>>

\* a fetch that fails, or a request the engine drops: no callback runs
FetchFailed ==
    /\ phase = "crawling"
    /\ \E req \in BagToSet(inflight) : inflight' = inflight (-) SetToBag({req})
    /\ UNCHANGED <<args, result, config, startup, html, extracted, states, max_pages,
                   page_count, phase, last,
                   workbook, filename, disk, today, written>>

\* the engine is idle: the spider closes and the pipeline saves
CloseSpider ==
    /\ phase = "crawling"
    /\ inflight = EmptyBag
    /\ close_spider
    /\ phase' = "closed"
    /\ UNCHANGED <<args, result, config, startup, html, extracted, states, max_pages,
                   page_count, inflight,
                   last, workbook, filename, today, written>>

Next == OpenSpider \/ StartRequests \/ OnPageFetched \/ FetchFailed \/ CloseSpider

Spec == Init /\ [][Next]_vars

\* the engine makes progress, and every fetch in flight completes or fails
FairSpec ==
    /\ Spec
    /\ WF_vars(OpenSpider)
    /\ WF_vars(StartRequests)
    /\ WF_vars(OnPageFetched \/ FetchFailed)
    /\ WF_vars(CloseSpider)

---------------------------------------------------------------------------
(* Properties of the scheduler.  `last' is the latest callback: the        *)
(* response it got, the counter before and after, its output in order.     *)

RequestsOf(out) == {i \in 1..Len(out) : out[i].kind = "request"}
ItemsOf(out) == {i \in 1..Len(out) : out[i].kind = "item"}

\* the ceiling on the items of a crawl never disables a callback
WrittenBelowCeiling == Len(written) < MaxWritten

\* C1: once start_requests has run, page_count[s] <= max_pages for every
\* state s, whatever list of state codes was requested
C1_PageCountWithinCap ==
    phase \in {"crawling", "closed"} =>
        \A s \in DOMAIN page_count : page_count[s] <= max_pages

\* C2: a callback that brings its state's counter to max_pages or beyond
\* issues no follow request, logs the cap warning and does not raise
C2_CapEndsStream ==
    (last.called /\ last.count >= max_pages) =>
        /\ RequestsOf(last.out) = {}
        /\ last.warned
        /\ last.raised = ""

\* C3: a callback that leaves its state's counter below max_pages issues
\* exactly one follow request, tagged with the same state, when the page has
\* a next-page link, and none when it has not; never more than one
C3_OneFollowBelowCap ==
    (last.called /\ last.count < max_pages) =>
        IF Truthy(last.response.next_page)
        THEN /\ Cardinality(RequestsOf(last.out)) = 1
             /\ \A i \in RequestsOf(last.out) :
                    last.out[i].request.state = last.response.state
        ELSE RequestsOf(last.out) = {}

\* C4: in the output of a callback every item of the page comes before the
\* follow request
C4_ItemsBeforeFollow ==
    last.called =>
        \A i \in RequestsOf(last.out) : \A j \in ItemsOf(last.out) : j < i

C4_Witness ==
    /\ last.called
    /\ Cardinality(ItemsOf(last.out)) >= 2
    /\ RequestsOf(last.out) # {}

\* C5: at any moment at most one fetch is in flight for each state
C5_OneFetchPerState ==
    \A r1, r2 \in BagToSet(inflight) :
        r1.state = r2.state => (r1 = r2 /\ CopiesIn(r1, inflight) = 1)

\* C6: when every fetch completes or fails, the crawl comes to an end: from
\* some moment on nothing is in flight, no further fetch is issued and the
\* spider is closed
C6_Terminates == <>[](phase = "closed" /\ inflight = EmptyBag)

C6_Witness ==
    /\ phase = "closed"
    /\ last.called
    /\ last.before >= 1
    /\ last.count >= max_pages
    /\ last.raised = ""

\* the page has no usable model: the marker does not match, or what follows
\* it is not JSON
ExtractionFails(text) ==
    \/ ~re_search(text).matched
    \/ json_loads(re_search(text).group).err = "JSONDecodeError"

---------------------------------------------------------------------------
(* The extractor on its own: a markup is drawn, extract_inline_model is    *)
(* called on it once.                                                      *)

\* what a page holds before the marker, between the marker and the payload,
\* as payload, between the payload and the rest, and after
Befores == {<<>>, <<"x", ";">>}
Assigns == {<<"M", "=">>, <<"M", "_", "=", "_">>, <<"M", "_", "_", "=">>}
Payloads ==
    {<<"{", "}">>,
     <<"{">> \o Q("a") \o <<":">> \o Q("b") \o <<"}">>,
     <<"{", "_">> \o Q("a") \o <<"_", ":", "_", "1", "1", "_", "}">>,
     <<"{">> \o Q("a") \o <<":", "{">> \o Q("b") \o <<":", "n", "}", "}">>,
     <<"{">> \o Q("a") \o <<":", "[", "1", ",", "n", "]", "}">>,
     <<"{">> \o Q("a") \o <<":", "q", "}", ";", "q", "}">>,
     <<"{">> \o Q("a") \o <<":", "q", "}", "q", "}">>,
     <<"{">> \o Q("a") \o <<":", "q", ";", "q", "}">>,
     <<"{">> \o Q("a") \o <<":", "q", "}", ";", "q", ",">> \o Q("b") \o <<":", "{", "}", "}">>,
     <<"{">> \o Q("a") \o <<":", "BIG", "}">>,
     <<"{">> \o Q("properties") \o <<":", "[">> \o PropB \o <<",">> \o PropA \o <<"]", "}">>,
     <<"{", "x", "}">>,
     <<"{">> \o Q("a") \o <<":", "}">>,
     <<"{">> \o Q("a") \o <<":">> \o Q("b"),
     <<"n">>,
     <<>>}
Terminators == {<<";">>, <<>>, <<"_", ";">>}
Afters == {<<>>, <<"x", "}", ";">>, <<"M", "=", "{", "}", ";">>}

Markups ==
    {b \o a \o p \o t \o e :
         b \in Befores, a \in Assigns, p \in Payloads, t \in Terminators, e \in Afters}
    \cup {<<>>, <<"x", ";">>, <<"{", "}", ";">>}

ExtractInit ==
    /\ args = <<>>
    /\ result = NoResult
    /\ html \in Markups
    /\ extracted = NotExtracted
    /\ config = NoConfig
    /\ startup = NoStartup
    /\ states = PyList(<<>>)
    /\ max_pages = DefaultMaxPages
    /\ page_count = <<>>
    /\ inflight = EmptyBag
    /\ phase = "init"
    /\ last = NoCallback
    /\ workbook = NoWorkbook
    /\ filename = 0
    /\ disk = [d \in Days |-> NoFile]
    /\ today = 1
    /\ written = <<>>

Extract ==
    /\ ~extracted.called
    /\ extracted' = [called |-> TRUE,
                     raised |-> extract_inline_model(html).raised,
                     val |-> extract_inline_model(html).val]
    /\ UNCHANGED <<args, result, config, startup, html, states, max_pages,
                   page_count, inflight, phase, last,
                   workbook, filename, disk, today, written>>

ExtractNext == Extract

ExtractSpec == ExtractInit /\ [][ExtractNext]_vars

\* C8: extract_inline_model returns on every markup and never raises; on a
\* markup without the marker it returns None
C8_ExtractorTotal ==
    extracted.called =>
        /\ extracted.raised = ""
        /\ ((\A i \in 1..Len(html) : html[i] # "M") => extracted.val = PyNone)

\* the first marker of the markup, "=", and then a JSON object that ends
\* directly before a semicolon: the object, read by the JSON grammar
PayloadAfterMarker(s) ==
    LET I == {i \in 1..Len(s) : s[i] = "M"}
    IN  IF I = {} THEN JsonErr("NoMarker")
        ELSE LET p1 == SkipWs(s, Min(I) + 1)
             IN  IF At(s, p1) # "=" \/ At(s, SkipWs(s, p1 + 1)) # "{"
                 THEN JsonErr("NoObject")
                 ELSE ParseValue(s, SkipWs(s, p1 + 1))

\* C9: when the marker is followed by a valid JSON object and a semicolon,
\* extract_inline_model returns exactly that object, whatever it contains
C9_ValidPayloadReturned ==
    (/\ extracted.called
     /\ PayloadAfterMarker(html).err = ""
     /\ At(html, PayloadAfterMarker(html).p) = ";") =>
        /\ extracted.raised = ""
        /\ extracted.val = PayloadAfterMarker(html).val

---------------------------------------------------------------------------
(* The sink on its own: sessions of open_spider, process_item and          *)
(* close_spider on one output directory, over several days.                *)

\* the items the spider yields for the properties of TwoBody: one without
\* and one with a slug, for each state
SinkItems ==
    {PageItems(st, TwoBody).items[i] : st \in StateCodes, i \in 1..2}

RECURSIVE DataRows(_, _)
DataRows(sheets, i) ==
    IF i > Len(sheets) THEN 0
    ELSE (Len(sheets[i].rows) - 1) + DataRows(sheets, i + 1)

\* the data rows of the workbook in memory and of the reports of other days
RECURSIVE RowsElsewhere(_)
RowsElsewhere(d) ==
    IF d > MaxDay THEN 0
    ELSE (IF d = filename THEN 0 ELSE DataRows(disk[d].sheets, 1)) + RowsElsewhere(d + 1)

AllRows == DataRows(workbook.sheets, 1) + RowsElsewhere(1)

SinkInit ==
    /\ args = <<>>
    /\ result = NoResult
    /\ html = <<>>
    /\ extracted = NotExtracted
    /\ config = NoConfig
    /\ startup = NoStartup
    /\ states = PyList(<<PyStr(VA)>>)
    /\ max_pages = DefaultMaxPages
    /\ page_count = <<>>
    /\ inflight = EmptyBag
    /\ phase = "init"
    /\ last = NoCallback
    /\ workbook = NoWorkbook
    /\ filename = 0
    /\ disk = [d \in Days |-> NoFile]
    /\ today = 1
    /\ written = <<>>

SinkOpen ==
    /\ phase = "init"
    /\ open_spider
    /\ phase' = "opened"
    /\ UNCHANGED <<args, result, config, startup, html, extracted, states, max_pages,
                   page_count, inflight,
                   last, disk, today>>

SinkWrite ==
    /\ phase = "opened"
    /\ AllRows < MaxRows
    /\ \E item \in SinkItems :
           /\ workbook' = Workbook(process_item(workbook.sheets, item))
           /\ written' = Append(written, item)
    /\ UNCHANGED <<args, result, config, startup, html, extracted, states, max_pages,
                   page_count, inflight,
                   phase, last, filename, disk, today>>

SinkClose ==
    /\ phase = "opened"
    /\ close_spider
    /\ phase' = "closed"
    /\ UNCHANGED <<args, result, config, startup, html, extracted, states, max_pages,
                   page_count, inflight,
                   last, workbook, filename, today, written>>

\* the next run: a new pipeline object (__init__)
SinkRestart ==
    /\ phase = "closed"
    /\ workbook' = NoWorkbook
    /\ filename' = 0
    /\ written' = <<>>
    /\ phase' = "init"
    /\ UNCHANGED <<args, result, config, startup, html, extracted, states, max_pages,
                   page_count, inflight,
                   last, disk, today>>

\* the run ends before close_spider (the process is killed): the workbook in
\* memory is lost
SinkAbort ==
    /\ phase = "opened"
    /\ workbook' = NoWorkbook
    /\ filename' = 0
    /\ written' = <<>>
    /\ phase' = "init"
    /\ UNCHANGED <<args, result, config, startup, html, extracted, states, max_pages,
                   page_count, inflight,
                   last, disk, today>>

\* midnight passes
NextDay ==
    /\ today < MaxDay
    /\ today' = today + 1
    /\ UNCHANGED <<args, result, config, startup, html, extracted, states, max_pages,
                   page_count, inflight,
                   phase, last, workbook, filename, disk, written>>

SinkNext ==
    SinkOpen \/ SinkWrite \/ SinkClose \/ SinkRestart \/ SinkAbort \/ NextDay

SinkSpec == SinkInit /\ [][SinkNext]_vars

StateOf(item) == DictGet(item, Key("state"), PyStr(<<"Unknown">>)).v

RECURSIVE RecordsFor(_, _, _)
RecordsFor(recs, st, i) ==
    IF i > Len(recs) THEN <<>>
    ELSE IF StateOf(recs[i]) = st THEN <<recs[i]>> \o RecordsFor(recs, st, i + 1)
    ELSE RecordsFor(recs, st, i + 1)

\* the row has a cell for each column of the header and no other, and the
\* cell holds the record's value for the field the header names there
RowMatches(row, header, rec) ==
    /\ Len(row) = Len(header)
    /\ \A c \in 1..Len(header) : row[c] = DictGet(rec, header[c].v, PyStr(<<>>))

\* the sheet is what the records `mine' make: the header of the first, then
\* one matching row for each, in order
SheetMatches(sheet, mine) ==
    /\ mine # <<>>
    /\ Len(sheet.rows) = Len(mine) + 1
    /\ sheet.rows[1] = KeysRow(mine[1])
    /\ \A n \in 1..Len(mine) :
           n + 1 <= Len(sheet.rows) => RowMatches(sheet.rows[n + 1], sheet.rows[1], mine[n])

ReportMatches(file, recs) ==
    /\ file.exists
    /\ \A n \in 1..Len(recs) : SheetIndex(file.sheets, StateOf(recs[n]), 1) # 0
    /\ \A k, l \in 1..Len(file.sheets) :
           file.sheets[k].title = file.sheets[l].title => k = l
    /\ \A k \in 1..Len(file.sheets) :
           SheetMatches(file.sheets[k], RecordsFor(recs, file.sheets[k].title, 1))

\* C10: a session opened on a day without a report leaves at close a report
\* with one sheet for each state written, named by the state, each sheet
\* being the header of the first record written for the state followed by
\* one row for each record of the state, in write order, the cells under
\* the header's columns
C10_FreshReport ==
    [][(phase = "opened" /\ phase' = "closed" /\ ~disk[filename].exists) =>
           ReportMatches(disk'[filename], written)]_vars

\* the records of the session written to the sheet, and the rows that were
\* in the sheet before them (the header and the rows loaded at open)
SessionRecords(sheet) == RecordsFor(written, sheet.title, 1)
RowsBefore(sheet) == Len(sheet.rows) - Len(SessionRecords(sheet))

\* C11: in every workbook state every data row of a sheet has exactly as
\* many cells as the sheet's header, and a row written in the session holds
\* in cell i the record's value for the field the header names in column i
C11_RowsAlignWithHeader ==
    \A k \in 1..Len(workbook.sheets) :
        LET sheet == workbook.sheets[k]
        IN  /\ \A n \in 2..Len(sheet.rows) : Len(sheet.rows[n]) = Len(sheet.rows[1])
            /\ \A n \in 1..Len(SessionRecords(sheet)) :
                   RowMatches(sheet.rows[RowsBefore(sheet) + n], sheet.rows[1],
                              SessionRecords(sheet)[n])

\* the sheets `after' keep every sheet of `before' in its place, with its
\* title and its header row
HeadersKept(before, after) ==
    /\ Len(after) >= Len(before)
    /\ \A k \in 1..Len(before) :
           /\ after[k].title = before[k].title
           /\ after[k].rows[1] = before[k].rows[1]

\* no row below the first repeats the header
OneHeader(sheets) ==
    \A k \in 1..Len(sheets) :
        \A n \in 2..Len(sheets[k].rows) : sheets[k].rows[n] # sheets[k].rows[1]

\* C12: the header of a sheet is written once, at creation, and never
\* changes: no write changes row 1 of an existing sheet, open loads the
\* sheets of today's report with their headers, close keeps the headers of
\* the report it replaces, and no other row of a sheet is a header
C12_HeaderFixed ==
    [][/\ (~workbook.none /\ ~workbook'.none) =>
              HeadersKept(workbook.sheets, workbook'.sheets)
       /\ (phase = "init" /\ phase' = "opened") =>
              HeadersKept(disk[filename'].sheets, workbook'.sheets)
       /\ \A d \in Days : HeadersKept(disk[d].sheets, disk'[d].sheets)
       /\ OneHeader(workbook'.sheets)
       /\ \A d \in Days : OneHeader(disk'[d].sheets)]_vars

\* a later session of the same day has written to a sheet it loaded
C12_Witness ==
    /\ phase = "opened"
    /\ disk[filename].exists
    /\ \E k \in 1..Len(disk[filename].sheets) :
           /\ workbook.sheets[k].title = disk[filename].sheets[k].title
           /\ Len(workbook.sheets[k].rows) > Len(disk[filename].sheets[k].rows)

IsPrefix(rows, more) ==
    Len(more) >= Len(rows) /\ SubSeq(more, 1, Len(rows)) = rows

\* `after' is `before' with one row added at the end of sheet k and nothing
\* else changed
OneRowAppended(before, after, k) ==
    /\ Len(after) = Len(before)
    /\ \A j \in 1..Len(before) :
           IF j = k
           THEN /\ after[j].title = before[j].title
                /\ Len(after[j].rows) = Len(before[j].rows) + 1
                /\ IsPrefix(before[j].rows, after[j].rows)
           ELSE after[j] = before[j]

\* `report' is `prior' extended by the rows of the records `recs': the
\* sheets of prior in place with their rows first, new sheets after them,
\* one more row in a sheet for each record of its state
ReportExtended(prior, report, recs) ==
    /\ Len(report) >= Len(prior)
    /\ \A k \in 1..Len(prior) :
           /\ report[k].title = prior[k].title
           /\ IsPrefix(prior[k].rows, report[k].rows)
           /\ Len(report[k].rows) =
                  Len(prior[k].rows) + Len(RecordsFor(recs, prior[k].title, 1))
    /\ \A k \in (Len(prior) + 1)..Len(report) :
           Len(report[k].rows) = 1 + Len(RecordsFor(recs, report[k].title, 1))

\* C13: open on a day that has a report loads it; a write for a state whose
\* sheet exists appends exactly one row at the end of that sheet and changes
\* nothing else; close then leaves the prior report extended by the rows of
\* the session
C13_LoadAndAppend ==
    [][/\ (phase = "init" /\ phase' = "opened" /\ disk[ReportPath(today)].exists) =>
              /\ filename' = ReportPath(today)
              /\ workbook'.sheets = disk[ReportPath(today)].sheets
       /\ (phase = "opened" /\ phase' = "opened" /\ written' # written) =>
              LET k == SheetIndex(workbook.sheets, StateOf(written'[Len(written')]), 1)
              IN  k # 0 => OneRowAppended(workbook.sheets, workbook'.sheets, k)
       /\ (phase = "opened" /\ phase' = "closed" /\ disk[filename].exists) =>
              /\ disk'[filename].exists
              /\ ReportExtended(disk[filename].sheets, disk'[filename].sheets, written)]_vars

\* a session has loaded today's report and written a record to one of its sheets
C13_Witness ==
    /\ phase = "opened"
    /\ disk[filename].exists
    /\ written # <<>>
    /\ SheetIndex(disk[filename].sheets, StateOf(written[1]), 1) # 0

\* C14: the reports on disk change only in a close step, which replaces the
\* file resolved at open by the whole workbook in memory (the rows loaded at
\* open and one row for each record written); open, write and a run that
\* ends before close leave every file as it was
C14_DiskOnlyByClose ==
    [][/\ disk' # disk => (phase = "opened" /\ phase' = "closed")
       /\ (phase = "opened" /\ phase' = "closed") =>
              /\ disk' = [disk EXCEPT ![filename] = SavedFile(workbook.sheets)]
              /\ DataRows(disk'[filename].sheets, 1) =
                     DataRows(disk[filename].sheets, 1) + Len(written)]_vars

\* a session that wrote records was closed after midnight: its report is
\* under the day of its open
C14_Witness ==
    /\ phase = "closed"
    /\ written # <<>>
    /\ filename < today
    /\ disk[filename] = SavedFile(workbook.sheets)
    /\ ~disk[today].exists

Titles(sheets) == {sheets[k].title : k \in 1..Len(sheets)}

DistinctTitles(sheets) ==
    \A k, l \in 1..Len(sheets) : sheets[k].title = sheets[l].title => k = l

\* C15: whatever the order in which the records of different states arrive,
\* a write adds a sheet only when its state has none, so the workbook never
\* holds two sheets, or a sheet with two header rows, for one state
C15_SheetCreatedOnce ==
    [][(phase = "opened" /\ phase' = "opened" /\ written' # written) =>
           /\ Len(workbook'.sheets) = Len(workbook.sheets) +
                  (IF StateOf(written'[Len(written')]) \in Titles(workbook.sheets)
                   THEN 0 ELSE 1)
           /\ DistinctTitles(workbook'.sheets)
           /\ OneHeader(workbook'.sheets)]_vars

\* records of two states were written alternately
C15_Witness ==
    /\ phase = "opened"
    /\ Len(written) >= 3
    /\ StateOf(written[1]) = StateOf(written[3])
    /\ StateOf(written[1]) # StateOf(written[2])
    /\ Len(workbook.sheets) = 2

\* C16: while a session is open, the workbook has a sheet for a state
\* exactly when the report loaded at open had one or a record of that state
\* was written in the session; the requested list plays no part
C16_SheetsFromData ==
    phase = "opened" =>
        Titles(workbook.sheets) =
            Titles(disk[filename].sheets)
                \cup {StateOf(written[n]) : n \in 1..Len(written)}

\* VA was requested and has no sheet; TX was not and has one, from a record
C16_Witness ==
    /\ phase = "opened"
    /\ \E i \in 1..Len(states.v) : Codes(states)[i] \notin Titles(workbook.sheets)
    /\ \E n \in 1..Len(written) :
           /\ \A i \in 1..Len(states.v) : Codes(states)[i] # StateOf(written[n])
           /\ StateOf(written[n]) \in Titles(workbook.sheets)
    /\ ~disk[filename].exists

\* C17: page_count changes only when start_requests sets it up and when a
\* callback runs, and a callback on a response tagged with state A adds
\* exactly one to page_count[A] and leaves the count of every other state
C17_CountFrame ==
    [][page_count' # page_count =>
           \/ phase = "opened" /\ phase' = "crawling"
           \/ /\ phase = "crawling"
              /\ last'.called
              /\ last'.response.state \in DOMAIN page_count
              /\ last'.before = page_count[last'.response.state]
              /\ page_count' =
                     [page_count EXCEPT ![last'.response.state] = @ + 1]]_vars

\* a callback has run for one of two requested states and not for the other
C17_Witness ==
    /\ last.called
    /\ \E a, b \in DOMAIN page_count :
           /\ a # b
           /\ last.response.state = a
           /\ page_count[a] >= 2
           /\ page_count[b] = 0

\* C18: start_requests sets up exactly the states of self.states, each with
\* page_count 0, and issues for each of them exactly one request, tagged
\* with the state and addressed to its listing URL, and no other request
C18_StartOnePerState ==
    [][(phase = "opened" /\ phase' = "crawling" /\ states.t = "list") =>
           LET S == {Codes(states)[i] : i \in 1..Len(states.v)}
           IN  /\ DOMAIN page_count' = S
               /\ \A st \in S : page_count'[st] = 0
               /\ BagToSet(inflight') = {Request(<<"/">> \o Lower(st), st, TRUE) : st \in S}
               /\ \A r \in BagToSet(inflight') : CopiesIn(r, inflight') = 1]_vars

\* the codes as requested: those of the states argument when one is given,
\* else those listed in states.yml, else the default VA
Requested ==
    IF Truthy(config.arg)
    THEN {StripWs(SplitComma(config.arg.v)[i]) : i \in 1..Len(SplitComma(config.arg.v))}
    ELSE IF /\ config.yml.readable
            /\ config.yml.data.t = "dict"
            /\ DictGet(config.yml.data.v, <<"states">>, PyNone).t = "list"
         THEN {DictGet(config.yml.data.v, <<"states">>, PyNone).v[i].v :
                   i \in 1..Len(DictGet(config.yml.data.v, <<"states">>, PyNone).v)}
         ELSE {<<"V", "A">>}

\* C19: the state carried by every request, every key of page_count and the
\* state of every record is the upper-case form of a requested code,
\* whether the codes came from the states argument or from states.yml
C19_UpperCaseStates ==
    LET U == {Upper(c) : c \in Requested}
    IN  /\ \A r \in BagToSet(inflight) : r.state \in U
        /\ \A k \in DOMAIN page_count : k \in U
        /\ \A n \in 1..Len(written) : StateOf(written[n]) \in U

\* states.yml holds a list of states
YamlHasList ==
    /\ config.yml.readable
    /\ config.yml.data.t = "dict"
    /\ DictGet(config.yml.data.v, <<"states">>, PyNone).t = "list"

\* C20: a states argument is used alone; without one the list of states.yml
\* is used; when states.yml is missing, unreadable or holds no list the
\* spider goes on with ["VA"] (with a warning when the file could not be
\* read as a mapping); in every case self.states is a non-empty list and
\* start_requests does not fail
C20_StatePrecedence ==
    /\ Truthy(config.arg) =>
           Codes(states) = [i \in 1..Len(SplitComma(config.arg.v)) |->
                                Upper(StripWs(SplitComma(config.arg.v)[i]))]
    /\ (~Truthy(config.arg) /\ YamlHasList) =>
           states = DictGet(config.yml.data.v, <<"states">>, PyNone)
    /\ (~Truthy(config.arg) /\ ~YamlHasList) =>
           /\ states = PyList(<<PyStr(<<"V", "A">>)>>)
           /\ (~config.yml.readable \/ config.yml.data.t # "dict") => startup.warned
    /\ states.t = "list" /\ Len(states.v) >= 1
    /\ startup.raised = ""

---------------------------------------------------------------------------
(* The page cap.                                                           *)

\* the cap the settings ask for: the number of the VRM_MAX_PAGES entry, 250
\* without an entry
CapAsked ==
    IF config.cap = NoCapEntry THEN 250
    ELSE IF config.cap = CapText THEN 1
    ELSE config.cap.v

\* C21: once start_requests has run, max_pages is the configured override
\* when there is one and 250 otherwise, whatever the state, and it keeps
\* that value for the rest of the crawl
C21_CapReadOnce ==
    [][phase' \in {"crawling", "closed"} =>
           /\ max_pages' = CapAsked'
           /\ phase \in {"crawling", "closed"} => max_pages' = max_pages]_vars

\* a crawl without an entry that went past MaxCap pages of a state and closed
C21_Witness ==
    /\ phase = "closed"
    /\ config.cap = NoCapEntry
    /\ max_pages = 250
    /\ last.called /\ last.count > MaxCap

---------------------------------------------------------------------------
(* generate_property_slug on its own: a first call with any of the drawn   *)
(* arguments, then further calls that repeat the arguments or take one of  *)
(* the documented examples.                                                *)

MaxSlugLen == 3

RECURSIVE Texts(_, _)
Texts(chars, len) ==
    IF len = 0 THEN {<<>>}
    ELSE Texts(chars, len - 1)
             \cup {<<c>> \o t : c \in chars, t \in Texts(chars, len - 1)}

Miami == <<"M", "i", "a", "m", "i">>
OMalleysPlace ==
    <<"O", "'", "M", "a", "l", "l", "e", "y", "'", "s", "_", "P", "l", "a", "c", "e", "!">>
StLouis == <<"S", "t", ".", "_", "L", "o", "u", "i", "s">>

SlugExamples ==
    {<<<<>>, Miami, <<"F", "L">>>>,
     <<OMalleysPlace, StLouis, <<"M", "O">>>>}

SlugInputs ==
    {<<name, city, state>> :
         name \in Texts({"A", "1", "_", "-"}, MaxSlugLen) \cup {<<"E'">>, <<"c", "e'", "b">>},
         city \in {<<>>, <<"_">>, <<"T", "a", "b">>, <<"c", "-", "_", "b">>},
         state \in {<<>>, VA, <<"-">>}}
        \cup SlugExamples

SlugCall(a) ==
    /\ args' = a
    /\ result' = [called |-> TRUE, raised |-> "",
                  val |-> generate_property_slug(a[1], a[2], a[3])]

SlugInit ==
    /\ args \in SlugInputs
    /\ result = NoResult
    /\ html = <<>>
    /\ extracted = NotExtracted
    /\ config = NoConfig
    /\ startup = NoStartup
    /\ states = PyList(<<>>)
    /\ max_pages = DefaultMaxPages
    /\ page_count = <<>>
    /\ inflight = EmptyBag
    /\ phase = "init"
    /\ last = NoCallback
    /\ workbook = NoWorkbook
    /\ filename = 0
    /\ disk = [d \in Days |-> NoFile]
    /\ today = 1
    /\ written = <<>>

SlugFirst ==
    /\ ~result.called
    /\ SlugCall(args)
    /\ UNCHANGED <<html, extracted, config, startup, states, max_pages, page_count,
                   inflight, phase, last, workbook, filename, disk, today, written>>

SlugAgain ==
    /\ result.called
    /\ \E a \in {args} \cup SlugExamples : SlugCall(a)
    /\ UNCHANGED <<html, extracted, config, startup, states, max_pages, page_count,
                   inflight, phase, last, workbook, filename, disk, today, written>>

SlugNext == SlugFirst \/ SlugAgain

SlugSpec == SlugInit /\ [][SlugNext]_vars

\* the reference of the slug: the characters of [a-z0-9], a maximal run of
\* other characters read as one hyphen, the hyphens at both ends dropped
RefClass ==
    {"a", "b", "c", "d", "e", "f", "g", "h", "i", "j", "k", "l", "m", "n", "o", "p",
     "q", "r", "s", "t", "u", "v", "w", "x", "y", "z",
     "0", "1", "2", "3", "4", "5", "6", "7", "8", "9"}

RECURSIVE RefSkipRun(_)
RefSkipRun(s) == IF s # <<>> /\ Head(s) \notin RefClass THEN RefSkipRun(Tail(s)) ELSE s

RECURSIVE RefReplace(_)
RefReplace(s) ==
    IF s = <<>> THEN <<>>
    ELSE IF Head(s) \in RefClass THEN <<Head(s)>> \o RefReplace(Tail(s))
    ELSE <<"-">> \o RefReplace(RefSkipRun(s))

RefTrim(s) ==
    LET kept == {i \in 1..Len(s) : s[i] # "-"}
    IN  IF kept = {} THEN <<>>
        ELSE SubSeq(s, CHOOSE i \in kept : \A j \in kept : i <= j,
                       CHOOSE i \in kept : \A j \in kept : j <= i)

RefClean(s) == RefTrim(RefReplace(Lower(s)))

RefSlug(a) ==
    LET n == RefClean(a[1])
        c == RefClean(a[2])
        st == RefClean(a[3])
        sep(x, y) == IF x # <<>> /\ y # <<>> THEN <<"-">> ELSE <<>>
    IN  n \o sep(n, c) \o c \o sep(n \o c, st) \o st

MiamiFl == <<"m", "i", "a", "m", "i", "-", "f", "l">>
OMalleySlug ==
    <<"o", "-", "m", "a", "l", "l", "e", "y", "-", "s", "-", "p", "l", "a", "c", "e", "-",
      "s", "t", "-", "l", "o", "u", "i", "s", "-", "m", "o">>

\* C22: generate_property_slug(name, city, state) is the reference slug:
\* each input cleaned on its own (lower case, every maximal run outside
\* [a-z0-9] one hyphen, hyphens trimmed at both ends), the empty ones
\* dropped, the others joined by single hyphens in the order name, city,
\* state; slug("", "Miami", "FL") = "miami-fl" and slug("O'Malley's Place!",
\* "St. Louis", "MO") = "o-malley-s-place-st-louis-mo"
C22_SlugIsReference ==
    result.called =>
        /\ result.val = RefSlug(args)
        /\ args = <<<<>>, Miami, <<"F", "L">>>> => result.val = MiamiFl
        /\ args = <<OMalleysPlace, StLouis, <<"M", "O">>>> => result.val = OMalleySlug

C22_Witness ==
    /\ result.called
    /\ args = <<OMalleysPlace, StLouis, <<"M", "O">>>>
    /\ result.val = OMalleySlug

WellFormedSlug(s) ==
    /\ \A i \in 1..Len(s) : s[i] \in RefClass \cup {"-"}
    /\ s # <<>> => s[1] # "-" /\ s[Len(s)] # "-"
    /\ \A i \in 1..(Len(s) - 1) : ~(s[i] = "-" /\ s[i + 1] = "-")

\* C23: a call with the arguments of the call before it gives the result of
\* the call before it; the slug of a slug (with empty city and state) is
\* that slug; a slug has only characters of [a-z0-9-] and no hyphen at
\* either end nor two hyphens in a row
C23_SlugIdempotent ==
    [][/\ (result.called /\ args' = args) => result' = result
       /\ generate_property_slug(result'.val, <<>>, <<>>) = result'.val
       /\ WellFormedSlug(result'.val)]_vars

C23_Witness ==
    /\ result.called
    /\ args = <<<<"-", "A", "_">>, <<"c", "-", "_", "b">>, <<"-">>>>
    /\ result.val = <<"a", "-", "c", "-", "b">>

---------------------------------------------------------------------------
(* parse on one page: the page's state tag, its markup with a model whose   *)
(* properties are drawn element by element, and its next-page link.        *)

MaxProps == 2

\* "key": value
Field(k, value) == Q(k) \o <<":">> \o value

\* the fields of an object, separated by commas
RECURSIVE Fields(_)
Fields(fs) ==
    IF fs = <<>> THEN <<>>
    ELSE IF Len(fs) = 1 THEN fs[1]
    ELSE fs[1] \o <<",">> \o Fields(Tail(fs))

Object(fs) == <<"{">> \o Fields(fs) \o <<"}">>

\* the values a property gives for its name and its city: none, "", a text,
\* a number, null
NameFields == {<<>>, <<Field("name", <<"q", "q">>)>>, <<Field("name", Q("A"))>>,
               <<Field("name", <<"1">>)>>, <<Field("name", <<"n">>)>>}
CityFields == {<<>>, <<Field("city", <<"q", "q">>)>>, <<Field("city", Q("C"))>>}

\* the elements of properties: objects with a name and a city or without, an
\* object that carries a state and a slug of its own, and null
PropertyTexts ==
    {Object(c \o nm) : nm \in NameFields, c \in CityFields}
        \cup {Object(<<Field("state", Q("X")), Field("slug", Q("s")),
                       Field("name", Q("A")), Field("city", Q("C")),
                       Field("url", Q("u"))>>),
              <<"n">>}

RECURSIVE Elements(_)
Elements(len) ==
    IF len = 0 THEN {<<>>}
    ELSE Elements(len - 1)
             \cup {<<e>> \o es : e \in PropertyTexts, es \in Elements(len - 1)}

PageTexts ==
    {WithProperties(<<"[">> \o Fields(es) \o <<"]">>) : es \in Elements(MaxProps)}
        \cup {NoMarkerBody, MalformedBody, EmptyModelBody, NullPropertiesBody,
               WithProperties(PropA), WithProperties(Q("A")),
               Assign \o Object(<<Field("url", Q("u"))>>) \o <<";">>}

Pages ==
    {Response(Request(ListingUrl(st), st, TRUE), text, next_page) :
         st \in StateCodes, text \in PageTexts, next_page \in {PyNone, PyStr(<<"/", "p">>)}}

PageInit ==
    /\ args \in Pages
    /\ result = NoResult
    /\ html = <<>>
    /\ extracted = NotExtracted
    /\ config = NoConfig
    /\ startup = NoStartup
    /\ states = PyList(<<PyStr(args.state)>>)
    /\ max_pages \in {1, DefaultMaxPages}
    /\ page_count = <<>>
    /\ inflight = EmptyBag
    /\ phase = "crawling"
    /\ last = NoCallback
    /\ workbook = NoWorkbook
    /\ filename = 0
    /\ disk = [d \in Days |-> NoFile]
    /\ today = 1
    /\ written = <<>>

\* the engine calls parse on the page
ParsePage ==
    /\ ~result.called
    /\ page_count' = parse(args, page_count, max_pages).page_count
    /\ result' = [called |-> TRUE,
                  raised |-> parse(args, page_count, max_pages).raised,
                  val |-> parse(args, page_count, max_pages).out]
    /\ UNCHANGED <<args, html, extracted, config, startup, states, max_pages,
                   inflight, phase, last, workbook, filename, disk, today, written>>

PageNext == ParsePage

PageSpec == PageInit /\ [][PageNext]_vars

\* the model of the page as json.loads reads the text after the marker
PageModel == json_loads(SubSeq(args.text, Len(Assign) + 1, Len(args.text) - 1))

HasKey(item, k) == DictIndex(item, Key(k), 1) > 0

NonEmptyText(val) == val.t = "str" /\ val.v # <<>>

SlugRight(item, state) ==
    LET name == DictGet(item, Key("name"), PyNone)
        city == DictGet(item, Key("city"), PyNone)
    IN  /\ HasKey(item, "slug") <=> (NonEmptyText(name) /\ NonEmptyText(city))
        /\ HasKey(item, "slug") =>
               DictGet(item, Key("slug"), PyNone) = PyStr(RefSlug(<<name.v, city.v, state>>))

\* C24: an item parse yields has a slug exactly when its name and its city
\* are both non-empty texts, and the slug is then the slug of the name, the
\* city and the state tag of the page
C24_SlugWhenNameAndCity ==
    result.called =>
        \A i \in ItemsOf(result.val) : SlugRight(result.val[i].item, args.state)

\* a page gave an item with a slug, then one with a name and no city
C24_Witness ==
    /\ result.called
    /\ Len(result.val) >= 2
    /\ result.val[1].kind = "item" /\ HasKey(result.val[1].item, "slug")
    /\ result.val[2].kind = "item" /\ ~HasKey(result.val[2].item, "slug")
    /\ NonEmptyText(DictGet(result.val[2].item, Key("name"), PyNone))

\* the page has a model whose properties entry is a sequence of maps
HasPropertyMaps ==
    /\ PageModel.err = ""
    /\ PageModel.val.t = "dict"
    /\ HasKey(PageModel.val.v, "properties")
    /\ DictGet(PageModel.val.v, Key("properties"), PyNone).t = "list"
    /\ \A i \in 1..Len(DictGet(PageModel.val.v, Key("properties"), PyNone).v) :
           DictGet(PageModel.val.v, Key("properties"), PyNone).v[i].t = "dict"

RecordFields ==
    <<"state", "name", "city", "address", "price", "bedrooms", "bathrooms", "url">>

\* the record of an element: the fields in order, the state the page's tag,
\* a field the element lacks the empty text
RecordOf(item, prop, state) ==
    /\ Len(item) >= Len(RecordFields)
    /\ \A j \in 1..Len(RecordFields) :
           /\ item[j].k = Key(RecordFields[j])
           /\ item[j].x = IF j = 1 THEN PyStr(state)
                          ELSE IF HasKey(prop.v, RecordFields[j])
                               THEN DictGet(prop.v, Key(RecordFields[j]), PyNone)
                               ELSE PyStr(<<>>)

\* C25: for a page whose model has a sequence of properties, parse yields
\* one item for each element, in the order of the elements, each with the
\* fields state, name, city, address, price, bedrooms, bathrooms, url in
\* that order, "" for a field the element lacks, and the page's state tag
\* as state
C25_OneRecordPerElement ==
    (result.called /\ HasPropertyMaps) =>
        LET props == DictGet(PageModel.val.v, Key("properties"), PyNone).v
            items == OutItems(result.val, 1)
        IN  /\ Len(items) = Len(props)
            /\ \A i \in 1..Len(props) : RecordOf(items[i], props[i], args.state)

---------------------------------------------------------------------------
(* Failures.                                                               *)

\* C26: when a fetch ends without a callback, no counter changes, no item
\* is written, nothing is raised, and the requests in flight are those of
\* before but the failed one: none is added, none of another stream is lost
C26_FailedFetchStops ==
    [][(phase = "crawling" /\ phase' = "crawling" /\ last' = last) =>
           /\ page_count' = page_count
           /\ written' = written /\ workbook' = workbook
           /\ startup' = startup
           /\ \E req \in BagToSet(inflight) : inflight' = inflight (-) SetToBag({req})]_vars

\* the first fetch of VA failed, while TX went on to write items
C26_Witness ==
    /\ phase = "crawling"
    /\ VA \in DOMAIN page_count /\ page_count[VA] = 0
    /\ \A req \in BagToSet(inflight) : req.state # VA
    /\ last.called /\ last.response.state = TX
    /\ written # <<>>

\* states.yml is missing, cannot be read as a mapping, or has no states entry
ConfigMissing ==
    \/ ~config.yml.readable
    \/ config.yml.data.t # "dict"
    \/ ~HasKey(config.yml.data.v, "states")

\* the page gives no model: no marker, or a payload that json.loads refuses
NoModel(text) ==
    \/ ~re_search(text).matched
    \/ json_loads(re_search(text).group).err # ""

\* C27: nothing but the sink raises to the caller: with a missing
\* configuration start_requests raises nothing, and a callback on a page
\* whose extraction fails raises nothing
C27_OnlySinkAborts ==
    /\ (phase \in {"crawling", "closed"} /\ ConfigMissing) => startup.raised = ""
    /\ (last.called /\ NoModel(last.response.text)) => last.raised = ""

---------------------------------------------------------------------------
(* The growth areas of a state (src/vrm_crawl/growth_areas.py).  An area    *)
(* is held as its name.                                                    *)

GROWTH_AREAS_DATA ==
    << [k |-> <<"V", "A">>, x |-> <<"Northern Virginia", "Richmond Metro">>],
       [k |-> <<"T", "X">>, x |-> <<"Austin Metro", "Dallas-Fort Worth", "Houston Metro">>],
       [k |-> <<"N", "C">>, x |-> <<"Research Triangle", "Charlotte Metro">>],
       [k |-> <<"F", "L">>, x |-> <<"Tampa Bay", "Orlando Metro", "Miami Metro">>],
       [k |-> <<"C", "A">>, x |-> <<"Bay Area", "Sacramento Metro", "Inland Empire">>] >>

\* a lookup of the code as it is given
get_growth_areas_exact(state) == DictGet(GROWTH_AREAS_DATA, state, <<>>)

get_growth_areas(state) == DictGet(GROWTH_AREAS_DATA, Upper(state), <<>>)

\* the text of format_growth_areas: the "No growth area data available for
\* state: ..." message, or the heading with the code in upper case and the
\* areas
format_growth_areas(state) ==
    IF get_growth_areas(state) = <<>>
    THEN [nodata |-> TRUE, state |-> state, areas |-> <<>>]
    ELSE [nodata |-> FALSE, state |-> Upper(state), areas |-> get_growth_areas(state)]

MaxCodeLen == 2

GrowthCodes ==
    Texts({"V", "A", "v", "a", "X", "_"}, MaxCodeLen)
        \cup {<<"T", "X">>, <<"t", "x">>, <<"N", "C">>, <<"n", "C">>, <<"F", "L">>,
              <<"f", "l">>, <<"C", "A">>, <<"c", "a">>, <<"V", "A", "X">>, <<"V">> \o <<"A", "_">>}

GrowthInit ==
    /\ args \in {<<code>> : code \in GrowthCodes}
    /\ result = NoResult
    /\ html = <<>>
    /\ extracted = NotExtracted
    /\ config = NoConfig
    /\ startup = NoStartup
    /\ states = PyList(<<>>)
    /\ max_pages = DefaultMaxPages
    /\ page_count = <<>>
    /\ inflight = EmptyBag
    /\ phase = "init"
    /\ last = NoCallback
    /\ workbook = NoWorkbook
    /\ filename = 0
    /\ disk = [d \in Days |-> NoFile]
    /\ today = 1
    /\ written = <<>>

\* a call of get_growth_areas and one of format_growth_areas on the code
GrowthLookup ==
    /\ ~result.called
    /\ result' = [called |-> TRUE, raised |-> "",
                  val |-> [areas |-> get_growth_areas(args[1]),
                           text |-> format_growth_areas(args[1])]]
    /\ UNCHANGED <<args, html, extracted, config, startup, states, max_pages, page_count,
                   inflight, phase, last, workbook, filename, disk, today, written>>

GrowthNext == GrowthLookup

GrowthSpec == GrowthInit /\ [][GrowthNext]_vars

\* the two codes are the same but for the case of their letters
SameCode(a, b) ==
    /\ Len(a) = Len(b)
    /\ \A i \in 1..Len(a) : LowerChar(a[i]) = LowerChar(b[i])

Listed(code) == {i \in 1..Len(GROWTH_AREAS_DATA) : SameCode(GROWTH_AREAS_DATA[i].k, code)}

\* C28: for a code that is not in the table, whatever the case of its
\* letters, get_growth_areas gives the empty list and format_growth_areas
\* the no-data message; for a code of the table, in any case, it gives the
\* areas of that state, which are not empty
C28_GrowthLookup ==
    result.called =>
        /\ Listed(args[1]) = {} =>
               /\ result.val.areas = <<>>
               /\ result.val.text.nodata /\ result.val.text.state = args[1]
        /\ \A i \in Listed(args[1]) :
               /\ result.val.areas = GROWTH_AREAS_DATA[i].x
               /\ result.val.areas # <<>>
               /\ ~result.val.text.nodata

C28_Witness ==
    /\ result.called
    /\ args = << <<"v", "a">> >>
    /\ result.val.areas = <<"Northern Virginia", "Richmond Metro">>

---------------------------------------------------------------------------
(* The web front-end's scrape handler (src/web_app.py).                    *)

AVAILABLE_STATES ==
    <<VA, TX, <<"N", "C">>, <<"F", "L">>, <<"C", "A">>, <<"G", "A">>, <<"S", "C">>,
      <<"A", "L">>, <<"T", "N">>, <<"K", "Y">>>>

\* a validation that lets every selection through
AllSelected(selected) == selected

\* [s for s in selected_states if s in AVAILABLE_STATES]
Validated(selected) ==
    SelectSeq(selected, LAMBDA c : \E i \in 1..Len(AVAILABLE_STATES) : AVAILABLE_STATES[i] = c)

\* page_limit.isdigit() and 1 <= int(page_limit) <= 1000
LimitOk(text) ==
    /\ text # <<>>
    /\ \A i \in 1..Len(text) : text[i] = "1"
    /\ DecimalValue(text, 0) >= 1 /\ DecimalValue(text, 0) <= 1000

NoCommand == [run |-> FALSE, states_arg |-> <<>>, limit |-> <<>>]

\* the flash of the outcome of subprocess.run
OutcomeFlash(outcome) ==
    CASE outcome = "zero" -> "success"
      [] outcome = "nonzero" -> "warning"
      [] outcome = "timeout" -> "warning"
      [] OTHER -> "error"

\* scrape: the categories flashed, in order, and the command run
scrape(selected, page_limit, outcome) ==
    IF selected = <<>> \/ Validated(selected) = <<>>
    THEN [flashes |-> <<"error">>, cmd |-> NoCommand]
    ELSE [flashes |->
              (IF Len(Validated(selected)) # Len(selected) THEN <<"warning">> ELSE <<>>)
              \o (IF StripWs(page_limit) # <<>> /\ ~LimitOk(StripWs(page_limit))
                  THEN <<"warning">> ELSE <<>>)
              \o <<OutcomeFlash(outcome)>>,
          cmd |-> [run |-> TRUE,
                   states_arg |-> CommaList(Validated(selected)),
                   limit |-> IF LimitOk(StripWs(page_limit))
                             THEN StripWs(page_limit) ELSE <<>>]]

MaxSelected == 2

\* the values a form submits as states
FormCodes ==
    {VA, TX, <<"K", "Y">>, <<"v", "a">>, <<"Z", "Z">>, <<"V", "A", ",", "Z", "Z">>, <<>>}

Submissions ==
    {<<selected, page_limit>> :
         selected \in Texts(FormCodes, MaxSelected),
         page_limit \in {<<>>, <<"_", "1">>, <<"x">>}}

WebInit ==
    /\ args \in Submissions
    /\ result = NoResult
    /\ html = <<>>
    /\ extracted = NotExtracted
    /\ config = NoConfig
    /\ startup = NoStartup
    /\ states = PyList(<<>>)
    /\ max_pages = DefaultMaxPages
    /\ page_count = <<>>
    /\ inflight = EmptyBag
    /\ phase = "init"
    /\ last = NoCallback
    /\ workbook = NoWorkbook
    /\ filename = 0
    /\ disk = [d \in Days |-> NoFile]
    /\ today = 1
    /\ written = <<>>

\* POST /scrape
Scrape ==
    /\ ~result.called
    /\ \E outcome \in {"zero", "nonzero", "timeout", "oserror"} :
           result' = [called |-> TRUE, raised |-> "",
                      val |-> scrape(args[1], args[2], outcome)]
    /\ UNCHANGED <<args, html, extracted, config, startup, states, max_pages, page_count,
                   inflight, phase, last, workbook, filename, disk, today, written>>

WebNext == Scrape

WebSpec == WebInit /\ [][WebNext]_vars

Whitelisted(code) == code \in {AVAILABLE_STATES[i] : i \in 1..Len(AVAILABLE_STATES)}

\* C29: the crawl is run only with codes of AVAILABLE_STATES: a submission
\* with no state, or with none of AVAILABLE_STATES, flashes an error and
\* runs nothing; otherwise the codes of the -a states= argument, read as
\* the spider reads it, are the submitted codes of AVAILABLE_STATES in order
C29_OnlyWhitelistedStates ==
    result.called =>
        /\ (\A i \in 1..Len(args[1]) : ~Whitelisted(args[1][i])) =>
               /\ ~result.val.cmd.run
               /\ \E j \in 1..Len(result.val.flashes) : result.val.flashes[j] = "error"
        /\ result.val.cmd.run =>
               /\ \A k \in 1..Len(SplitComma(result.val.cmd.states_arg)) :
                      Whitelisted(SplitComma(result.val.cmd.states_arg)[k])
               /\ SplitComma(result.val.cmd.states_arg) =
                      SelectSeq(args[1], Whitelisted)
        /\ (\E i \in 1..Len(args[1]) : Whitelisted(args[1][i])) => result.val.cmd.run

\* a submission of an unknown code and of VA ran the crawl for VA
C29_Witness ==
    /\ result.called
    /\ args[1] = <<<<"Z", "Z">>, VA>>
    /\ result.val.cmd.run
    /\ result.val.cmd.states_arg = VA

---------------------------------------------------------------------------
(* Several markers in one markup.                                          *)

Markers(s) == {i \in 1..Len(s) : s[i] = "M"}

\* C30: in a markup with several markers the result comes from the first
\* one alone: when the text after the first marker is no valid JSON object,
\* extract_inline_model gives no model, whatever follows a later marker
C30_FirstMarkerOnly ==
    (/\ extracted.called
     /\ Cardinality(Markers(html)) >= 2
     /\ PayloadAfterMarker(html).err # "") =>
        extracted.val = PyNone

---------------------------------------------------------------------------
(* The cap and the end of a stream.                                        *)

\* C31: a callback whose page reaches the cap (the first page when the cap
\* is 1 included) still hands every item of its page to the pipeline, two
\* for a page of two properties; it yields no follow request
C31_CapAfterItems ==
    [][(last' # last /\ last'.called /\ last'.count >= max_pages) =>
           /\ OutItems(last'.out, 1) =
                  PageItems(last'.response.state, last'.response.text).items
           /\ last'.response.text = TwoBody => Len(OutItems(last'.out, 1)) = 2
           /\ written' = written \o OutItems(last'.out, 1)
           /\ RequestsOf(last'.out) = {}]_vars

\* the first page of a crawl with cap 1 had a next link and two properties
C31_Witness ==
    /\ last.called
    /\ max_pages = 1 /\ last.count = 1
    /\ Truthy(last.response.next_page)
    /\ Len(written) = 2 /\ Len(OutItems(last.out, 1)) = 2
    /\ RequestsOf(last.out) = {}

\* C32: a callback logs that the cap is reached exactly when the counter of
\* its state is at or over max_pages when the page completes; a page below
\* the cap without a next link ends its stream with no such report
C32_CapReportExact ==
    last.called =>
        /\ last.warned <=> last.count >= max_pages
        /\ (last.count < max_pages /\ ~Truthy(last.response.next_page)) =>
               ~last.warned /\ RequestsOf(last.out) = {}

\* C33: parse raises on no page: when the payload is JSON of another shape
\* than a model with a sequence of property maps it yields no item for the
\* parts that are off, and still takes the pagination decision, a follow
\* request iff the counter is below the cap and the page has a next link
C33_ParseNeverRaises ==
    (result.called /\ PageModel.err = "") =>
        /\ result.raised = ""
        /\ Cardinality(RequestsOf(result.val)) =
               IF page_count[args.state] < max_pages /\ Truthy(args.next_page)
               THEN 1 ELSE 0

---------------------------------------------------------------------------
(* Interleaving of the streams and routing of the items.                   *)

\* the rows of the sheet of a state, none when it has no sheet
SheetRows(sheets, title) ==
    IF SheetIndex(sheets, title, 1) = 0 THEN <<>>
    ELSE sheets[SheetIndex(sheets, title, 1)].rows

\* the sheets, the counters and the requests yielded after the callback of
\* one page and then the callback of another
AfterBoth(first, second) ==
    LET r1 == parse(first, page_count, max_pages)
        s1 == ProcessItems(workbook.sheets, OutItems(r1.out, 1), 1)
        r2 == parse(second, r1.page_count, max_pages)
    IN  [sheets |-> ProcessItems(s1, OutItems(r2.out, 1), 1),
         page_count |-> r2.page_count,
         requests |-> OutRequests(r1.out, 1) (+) OutRequests(r2.out, 1)]

SameOutcome(a, b) ==
    /\ \A title \in Titles(a.sheets) \cup Titles(b.sheets) :
           SheetRows(a.sheets, title) = SheetRows(b.sheets, title)
    /\ a.page_count = b.page_count
    /\ a.requests = b.requests

LinkedPage(req, text) == Response(req, text, PyStr(<<"/", "p">>))

\* C34: when pages of two different states are due, the sheet of every
\* state holds the same header and the same rows in the same order
\* whichever of the two pages completes first, and the counters and the
\* requests that follow are the same: only the order of the sheets differs
C34_InterleavingFree ==
    phase = "crawling" =>
        \A ra, rb \in BagToSet(inflight) :
            ra.state # rb.state =>
                \A ta, tb \in Bodies :
                    SameOutcome(AfterBoth(LinkedPage(ra, ta), LinkedPage(rb, tb)),
                                AfterBoth(LinkedPage(rb, tb), LinkedPage(ra, ta)))

\* pages of VA and TX are due, and the two orders of their completion give
\* workbooks that differ (in the order of their sheets)
C34_Witness ==
    /\ phase = "crawling"
    /\ \E ra, rb \in BagToSet(inflight) :
           /\ ra.state = VA /\ rb.state = TX
           /\ AfterBoth(LinkedPage(ra, TwoBody), LinkedPage(rb, TwoBody)).sheets #
                  AfterBoth(LinkedPage(rb, TwoBody), LinkedPage(ra, TwoBody)).sheets

\* every record has the sheet of its state, no state has two sheets, and
\* the data rows of a sheet are the values of the records of its state, one
\* row for each record, in the order of the records
Routed(sheets, recs) ==
    /\ DistinctTitles(sheets)
    /\ \A n \in 1..Len(recs) : StateOf(recs[n]) \in Titles(sheets)
    /\ \A k \in 1..Len(sheets) :
           LET mine == RecordsFor(recs, sheets[k].title, 1)
           IN  /\ Len(sheets[k].rows) = Len(mine) + 1
               /\ \A n \in 1..Len(mine) :
                      n + 1 <= Len(sheets[k].rows) =>
                          sheets[k].rows[n + 1] = ValuesRow(mine[n])

\* C35: the items a callback yields carry the state tag of its page and
\* are all handed to the pipeline; every item handed over is one data row
\* of the sheet named by its tag and of no other sheet, rows are neither
\* dropped nor merged (an item written twice is two rows), and the report
\* saved at close holds these sheets
C35_RoutedByStateTag ==
    [][/\ last' # last =>
              /\ written' = written \o OutItems(last'.out, 1)
              /\ \A n \in 1..Len(OutItems(last'.out, 1)) :
                     StateOf(OutItems(last'.out, 1)[n]) = last'.response.state
       /\ ~workbook'.none => Routed(workbook'.sheets, written')
       /\ (phase' = "closed" /\ ~workbook'.none) =>
              disk'[filename'].sheets = workbook'.sheets]_vars

\* VA and TX have a sheet each, and a sheet holds the same row twice
C35_Witness ==
    /\ phase = "closed"
    /\ Len(disk[filename].sheets) = 2
    /\ \E k \in 1..Len(disk[filename].sheets) :
           /\ Len(disk[filename].sheets[k].rows) >= 4
           /\ disk[filename].sheets[k].rows[2] = disk[filename].sheets[k].rows[4]

---------------------------------------------------------------------------
(* The report of the day.                                                  *)

\* C36: open resolves the path from the day of the open and takes up the
\* report of that day when there is one; the path stays the same until
\* close, whatever the day becomes; close saves to it; the reports of all
\* other days stay as they are, and two days never have the same path
C36_OnlyTheDaysReport ==
    [][/\ (phase = "init" /\ phase' = "opened") =>
              /\ filename' = ReportPath(today)
              /\ disk[ReportPath(today)].exists =>
                     workbook'.sheets = disk[ReportPath(today)].sheets
       /\ (phase = "opened" /\ phase' \in {"opened", "closed"}) =>
              /\ filename' = filename
              /\ \A d \in Days : ReportPath(d) # filename => disk'[ReportPath(d)] = disk[ReportPath(d)]
       /\ (phase = "opened" /\ phase' = "closed") =>
              disk'[filename] = SavedFile(workbook.sheets)
       /\ phase # "opened" => disk' = disk
       /\ \A d, e \in Days : d # e => ReportPath(d) # ReportPath(e)]_vars

\* a session of the second day was closed: each day has its own report
C36_Witness ==
    /\ phase = "closed"
    /\ today = 2 /\ filename = ReportPath(2)
    /\ disk[ReportPath(1)].exists /\ disk[ReportPath(2)].exists
    /\ disk[ReportPath(1)] # disk[ReportPath(2)]

=============================================================================
